---- MODULE Spec2Model ----
(***************************************************************************)
(* Model of src/index.ts: the POST /api/chat handler (handleChatRequest),  *)
(* its conversation sanitizer (buildModelInput), the extraction of the     *)
(* answer text from the inference result and the classification of a       *)
(* caught inference error.                                                 *)
(*                                                                         *)
(* JavaScript values are records [t, v]: t is the value's type tag and v   *)
(* its payload (a TLA+ string for a string, a sequence of values for an    *)
(* array, a sequence of [k, x] fields for an object).                      *)
(***************************************************************************)
EXTENDS Integers, Sequences, FiniteSets, TLC

VARIABLES
    pc,           \* position of the handler: start, loop, built, await, extract, catch, done
    request,      \* the request body: [json |-> is it valid JSON, v |-> its value]
    raw,          \* buildModelInput's parameter raw (the messages array)
    blocked,      \* buildModelInput's parameter blockedUserContents (a Set)
    i,            \* loop index of buildModelInput, 1-based
    cleaned,      \* buildModelInput's cleaned, as indices into raw
    windowed,     \* buildModelInput's windowed, as indices into raw
    input,        \* the input returned by buildModelInput and sent to the model
    calls,        \* number of env.AI.run invocations of this request
    aiResponse,   \* the value env.AI.run resolved with
    error,        \* the value caught by the catch clause
    thrownBy,     \* which step raised the caught value
    response,     \* the Response returned to the client
    responses     \* number of Responses returned for this request

vars == <<pc, request, raw, blocked, i, cleaned, windowed, input, calls,
          aiResponse, error, thrownBy, response, responses>>

----------------------------------------------------------------------------
(* Bounds of the model *)

MaxLen == 3       \* longest history over the full alphabet of entries
MaxLong == 20     \* longest alternating history (exercises the window)

----------------------------------------------------------------------------
(* JavaScript values *)

Undef == [t |-> "undefined", v |-> 0]
Null == [t |-> "null", v |-> 0]
Bool(b) == [t |-> "boolean", v |-> b]
Num(n) == [t |-> "number", v |-> n]
Str(s) == [t |-> "string", v |-> s]
Arr(a) == [t |-> "array", v |-> a]
Obj(fields) == [t |-> "object", v |-> fields]
Field(k, x) == [k |-> k, x |-> x]

\* typeof x === "string"
IsString(x) == x.t = "string"

\* Array.isArray(x)
IsArray(x) == x.t = "array"

\* typeof x === "object" (true of null, arrays and objects)
TypeofObject(x) == x.t \in {"null", "array", "object"}

\* Reading a property of null or undefined throws a TypeError
PropThrows(x) == x.t \in {"null", "undefined"}

\* Boolean(x)
Truthy(x) ==
    CASE x.t \in {"undefined", "null"} -> FALSE
      [] x.t = "boolean" -> x.v
      [] x.t = "number" -> x.v # 0
      [] x.t = "string" -> x.v # ""
      [] OTHER -> TRUE

\* a === b, for b a primitive
StrictEq(a, b) == a.t = b.t /\ a.v = b.v

\* x[k] for a property name k; the last field of that name wins
Get(x, k) ==
    IF x.t = "object" /\ \E n \in 1..Len(x.v) : x.v[n].k = k
    THEN LET n == CHOOSE n \in 1..Len(x.v) :
                      /\ x.v[n].k = k
                      /\ \A j \in (n+1)..Len(x.v) : x.v[j].k # k
         IN x.v[n].x
    ELSE Undef

\* x[0]
First(x) ==
    CASE x.t = "array" -> IF Len(x.v) > 0 THEN x.v[1] ELSE Undef
      [] x.t = "string" -> IF Len(x.v) > 0 THEN Str(SubSeq(x.v, 1, 1)) ELSE Undef
      [] OTHER -> Get(x, "0")

\* x?.k
OptGet(x, k) == IF PropThrows(x) THEN Undef ELSE Get(x, k)

\* Decimal digits of a non-negative integer
RECURSIVE Digits(_)
Digits(n) ==
    LET d == SubSeq("0123456789", (n % 10) + 1, (n % 10) + 1)
    IN IF n < 10 THEN d ELSE Digits(n \div 10) \o d

\* String(x), as a template literal `${x}` converts x
RECURSIVE TemplateString(_)
TemplateString(x) ==
    CASE x.t = "string" -> x.v
      [] x.t = "undefined" -> "undefined"
      [] x.t = "null" -> "null"
      [] x.t = "boolean" -> IF x.v THEN "true" ELSE "false"
      [] x.t = "number" -> IF x.v < 0 THEN "-" \o Digits(-x.v) ELSE Digits(x.v)
      [] x.t = "array" ->
            IF x.v = <<>> THEN ""
            ELSE LET last == x.v[Len(x.v)]
                     text == IF PropThrows(last) THEN "" ELSE TemplateString(last)
                 IN IF Len(x.v) = 1 THEN text
                    ELSE TemplateString(Arr(SubSeq(x.v, 1, Len(x.v) - 1)))
                         \o "," \o text
      [] OTHER -> "[object Object]"

\* One character, lower-cased (the i flag of a RegExp)
LowerCh(c) ==
    LET up == "ABCDEFGHIJKLMNOPQRSTUVWXYZ"
        lo == "abcdefghijklmnopqrstuvwxyz"
    IN IF \E n \in 1..26 : SubSeq(up, n, n) = c
       THEN LET n == CHOOSE n \in 1..26 : SubSeq(up, n, n) = c
            IN SubSeq(lo, n, n)
       ELSE c

\* /blocked by guardrails/i.test(s)
GuardrailPattern == "blocked by guardrails"
GuardrailRegexTest(s) ==
    LET p == GuardrailPattern
    IN \E n \in 1..(Len(s) - Len(p) + 1) :
          \A j \in 1..Len(p) :
              LowerCh(SubSeq(s, n + j - 1, n + j - 1)) = SubSeq(p, j, j)

----------------------------------------------------------------------------
(* Requests *)

ChatMessage(role, content) ==
    Obj(<<Field("role", Str(role)), Field("content", content)>>)

\* The entries histories of every shape are built from: messages of each
\* role, a blocked content, a guardrail notice, and entries that are malformed
CoreEntries ==
    { ChatMessage("system", Str("sys")),
      ChatMessage("user", Str("hi")),
      ChatMessage("user", Str("bad")),
      ChatMessage("assistant", Str("Hello!")),
      ChatMessage("assistant", Str("Sorry: Blocked By GUARDRAILS.")),
      Obj(<<Field("content", Str("hi"))>>),
      Null }

\* With these: a near miss of a notice, a notice in a user message, and more
\* malformed entries
Entries ==
    CoreEntries \cup
    { ChatMessage("assistant", Str("blocked by guard rails")),
      ChatMessage("user", Str("was blocked by guardrails")),
      ChatMessage("user", Num(7)),
      ChatMessage("tool", Str("hi")),
      Num(5) }

RECURSIVE SeqsUpTo(_, _)
SeqsUpTo(S, n) ==
    IF n = 0 THEN {<<>>}
    ELSE LET shorter == SeqsUpTo(S, n - 1)
         IN shorter \cup {Append(h, e) : h \in shorter, e \in S}

\* n plain alternating user/assistant entries
Alternating(n) ==
    [k \in 1..n |-> IF k % 2 = 1 THEN ChatMessage("user", Str("hi"))
                    ELSE ChatMessage("assistant", Str("Hello!"))]

\* Histories around the window size: alternating, with at most one entry
\* replaced by an arbitrary one
Window == 16
LongHistories ==
    {[k \in 1..n |-> IF k = p THEN e ELSE Alternating(n)[k]] :
        n \in (Window - 1)..MaxLong, p \in 0..MaxLong, e \in Entries}

BlockLists == {<<>>, <<Str("bad")>>}

ChatBody(messages, blockList) ==
    Obj(<<Field("messages", Arr(messages)),
          Field("blockedUserContents", Arr(blockList))>>)

\* Bodies whose fields are missing or of the wrong type
OddBodies ==
    { Null, Num(1), Obj(<<>>),
      Obj(<<Field("messages", Str("hi"))>>),
      Obj(<<Field("messages", Arr(<<ChatMessage("user", Str("bad"))>>))>>),
      Obj(<<Field("messages", Arr(<<ChatMessage("user", Str("bad"))>>)),
            Field("blockedUserContents", Str("bad"))>>) }

\* The histories and block lists of the requests with a well-formed body
ChatRequests ==
    (SeqsUpTo(CoreEntries, MaxLen) \X BlockLists)
    \cup (SeqsUpTo(Entries, MaxLen - 1) \X BlockLists)
    \cup (LongHistories \X {<<Str("bad")>>})

----------------------------------------------------------------------------
(* Thrown values *)

ErrorObject(message) == Obj(<<Field("message", Str(message))>>)

SyntaxError == ErrorObject("Unexpected token < in JSON at position 0")
TypeError(what) == ErrorObject("Cannot read properties of " \o what)

\* Variant: the thrown value leaves the handler
ThrowEscapes(e, step) ==
    /\ pc' = "done"
    /\ error' = e
    /\ thrownBy' = step

Throw(e, step) ==
    /\ pc' = "catch"
    /\ error' = e
    /\ thrownBy' = step

----------------------------------------------------------------------------
(* handleChatRequest: reading the body *)

Init ==
    /\ pc = "start"
    /\ \/ request = [json |-> FALSE, v |-> Undef]
       \/ \E b \in OddBodies : request = [json |-> TRUE, v |-> b]
       \/ \E c \in ChatRequests :
              request = [json |-> TRUE, v |-> ChatBody(c[1], c[2])]
    /\ raw = <<>>
    /\ blocked = {}
    /\ i = 1
    /\ cleaned = <<>>
    /\ windowed = <<>>
    /\ input = Undef
    /\ calls = 0
    /\ aiResponse = Undef
    /\ error = Undef
    /\ thrownBy = "none"
    /\ response = [status |-> 0, body |-> Undef]
    /\ responses = 0

\* Array.isArray(raw?.k) ? raw.k : []
ArrayField(body, k) ==
    IF IsArray(OptGet(body, k)) THEN OptGet(body, k).v ELSE <<>>

\* await request.json() rejects on a body that is not JSON
ReadBodyThrows ==
    /\ pc = "start"
    /\ ~request.json
    /\ Throw(SyntaxError, "json")
    /\ UNCHANGED <<request, raw, blocked, i, cleaned, windowed, input, calls,
                   aiResponse, response, responses>>

\* messages and blocked are defaulted and buildModelInput is entered; the
\* body is not read again
ReadBody ==
    /\ pc = "start"
    /\ request.json
    /\ raw' = ArrayField(request.v, "messages")
    /\ blocked' = LET b == ArrayField(request.v, "blockedUserContents")
                  IN {b[n] : n \in 1..Len(b)}
    /\ i' = 1
    /\ cleaned' = <<>>
    /\ request' = [json |-> TRUE, v |-> Undef]
    /\ pc' = "loop"
    /\ UNCHANGED <<windowed, input, calls, aiResponse, error,
                   thrownBy, response, responses>>

----------------------------------------------------------------------------
(* buildModelInput *)

\* Variant: the role is compared with another spelling
IsSystemCapitalized(m) == StrictEq(Get(m, "role"), Str("System"))

IsSystem(m) == StrictEq(Get(m, "role"), Str("system"))

IsBlockedUser(m, blockSet) ==
    /\ StrictEq(Get(m, "role"), Str("user"))
    /\ IsString(Get(m, "content"))
    /\ Get(m, "content") \in blockSet

looksLikeGuardrailNotice(m) ==
    /\ StrictEq(Get(m, "role"), Str("assistant"))
    /\ IsString(Get(m, "content"))
    /\ GuardrailRegexTest(Get(m, "content").v)

InLoop == pc = "loop" /\ i <= Len(raw)

LoopUnchanged ==
    UNCHANGED <<request, raw, blocked, windowed, input, calls, aiResponse,
                response, responses>>

\* m.role on a null or undefined entry throws
EntryThrows ==
    /\ InLoop
    /\ PropThrows(raw[i])
    /\ Throw(TypeError("null (reading 'role')"), "sanitize")
    /\ UNCHANGED <<i, cleaned>>
    /\ LoopUnchanged

SkipSystem ==
    /\ InLoop
    /\ ~PropThrows(raw[i])
    /\ IsSystem(raw[i])
    /\ i' = i + 1
    /\ UNCHANGED <<pc, cleaned, error, thrownBy>>
    /\ LoopUnchanged

SkipBlocked ==
    /\ InLoop
    /\ ~PropThrows(raw[i])
    /\ ~IsSystem(raw[i])
    /\ IsBlockedUser(raw[i], blocked)
    /\ i' = i + 1
    /\ UNCHANGED <<pc, cleaned, error, thrownBy>>
    /\ LoopUnchanged

\* Variant: the pop does not look at the role
PopAlways(c, history) ==
    IF Len(c) > 0 THEN SubSeq(c, 1, Len(c) - 1) ELSE c

\* cleaned.pop() when the last entry of cleaned is a user message
PopIfUser(c, history) ==
    IF Len(c) > 0 /\ StrictEq(Get(history[c[Len(c)]], "role"), Str("user"))
    THEN SubSeq(c, 1, Len(c) - 1)
    ELSE c

DropNotice ==
    /\ InLoop
    /\ ~PropThrows(raw[i])
    /\ ~IsSystem(raw[i])
    /\ ~IsBlockedUser(raw[i], blocked)
    /\ looksLikeGuardrailNotice(raw[i])
    /\ cleaned' = PopIfUser(cleaned, raw)
    /\ i' = i + 1
    /\ UNCHANGED <<pc, error, thrownBy>>
    /\ LoopUnchanged

PushMessage ==
    /\ InLoop
    /\ ~PropThrows(raw[i])
    /\ ~IsSystem(raw[i])
    /\ ~IsBlockedUser(raw[i], blocked)
    /\ ~looksLikeGuardrailNotice(raw[i])
    /\ cleaned' = Append(cleaned, i)
    /\ i' = i + 1
    /\ UNCHANGED <<pc, error, thrownBy>>
    /\ LoopUnchanged

\* Variant: the window keeps the oldest entries
WindowKeepsOldest(c) ==
    IF Len(c) > Window THEN SubSeq(c, 1, Window) ELSE c

\* cleaned.length > 16 ? cleaned.slice(cleaned.length - 16) : cleaned
WindowOf(c) ==
    IF Len(c) > Window THEN SubSeq(c, Len(c) - Window + 1, Len(c)) ELSE c

\* The line a windowed message is rendered to; "" for any other role
RenderLine(m) ==
    IF StrictEq(Get(m, "role"), Str("user"))
    THEN "User: " \o TemplateString(Get(m, "content"))
    ELSE IF StrictEq(Get(m, "role"), Str("assistant"))
         THEN "Assistant: " \o TemplateString(Get(m, "content"))
         ELSE ""

\* lines.join("\n\n")
RECURSIVE Join(_)
Join(lines) ==
    IF Len(lines) = 0 THEN ""
    ELSE IF Len(lines) = 1 THEN lines[1]
    ELSE lines[1] \o "\n\n" \o Join(Tail(lines))

\* lines.filter(Boolean).join("\n\n")
JoinLines(lines) == Join(SelectSeq(lines, LAMBDA line : line # ""))

FormatInput(w, history) ==
    IF Len(w) = 1 /\ StrictEq(Get(history[w[1]], "role"), Str("user"))
    THEN Get(history[w[1]], "content")
    ELSE Str(JoinLines([n \in 1..Len(w) |-> RenderLine(history[w[n]])]))

\* The loop is over: window, format, return {instructions, input}
ReturnModelInput ==
    /\ pc = "loop"
    /\ i > Len(raw)
    /\ windowed' = WindowOf(cleaned)
    /\ input' = FormatInput(WindowOf(cleaned), raw)
    /\ pc' = "built"
    /\ UNCHANGED <<request, raw, blocked, i, cleaned, calls, aiResponse,
                   error, thrownBy, response, responses>>

----------------------------------------------------------------------------
(* handleChatRequest: the inference call *)

AI_GATEWAY_ID == "new-gateway"

MessageItem(content) ==
    Obj(<<Field("type", Str("message")), Field("content", content)>>)
TextItem(text) ==
    Obj(<<Field("type", Str("output_text")), Field("text", text)>>)
ReasoningItem == Obj(<<Field("type", Str("reasoning"))>>)
RefusalItem == Obj(<<Field("type", Str("refusal"))>>)

\* Values of the output field of an inference result
OutputShapes ==
    { Undef,
      Str("text"),
      Arr(<<>>),
      Arr(<<Null>>),
      Arr(<<ReasoningItem>>),
      Arr(<<ReasoningItem, MessageItem(Arr(<<TextItem(Str("answer"))>>))>>),
      Arr(<<MessageItem(Arr(<<RefusalItem, TextItem(Str("answer"))>>))>>),
      Arr(<<MessageItem(Arr(<<TextItem(Str(""))>>))>>),
      Arr(<<MessageItem(Arr(<<TextItem(Str("")), TextItem(Str("late"))>>))>>),
      Arr(<<MessageItem(Arr(<<RefusalItem>>)),
            MessageItem(Arr(<<TextItem(Str("second"))>>))>>),
      Arr(<<MessageItem(Arr(<<Null, TextItem(Str("answer"))>>))>>),
      Arr(<<MessageItem(Undef)>>) }

ChoiceShapes ==
    { Undef,
      Arr(<<>>),
      Arr(<<Null>>),
      Arr(<<Obj(<<Field("message", Obj(<<Field("content", Str("choice"))>>))>>)>>) }

ResultShapes == {Undef, Null, Obj(<<Field("response", Str("nested"))>>)}

AiObject(output, resp, content, choices, result) ==
    Obj(<<Field("output", output), Field("response", resp),
          Field("content", content), Field("choices", choices),
          Field("result", result)>>)

\* What env.AI.run may resolve with
AiResponses ==
    { Str("plain text"), Str(""), Null, Undef, Num(0), Num(42), Bool(TRUE),
      Arr(<<>>), Obj(<<>>) }
    \cup { AiObject(o, r, c, ch, res) :
             o \in OutputShapes, r \in {Undef, Str(""), Str("legacy")},
             c \in {Undef, Str("flat")}, ch \in ChoiceShapes,
             res \in ResultShapes }

\* The JSON an AI Gateway failure carries for a code
GatewayJson(code) ==
    "{\"error\":[{\"code\":" \o Digits(code) \o ",\"message\":\"blocked\"}]}"

PromptBlockedCode == 2016
ResponseBlockedCode == 2017

\* Failures whose embedded JSON object has an error list headed by the code
GatewayErrors(code) ==
    { ErrorObject(GatewayJson(code)),
      ErrorObject("InferenceUpstreamError: " \o GatewayJson(code)),
      ErrorObject("AiError: " \o GatewayJson(code) \o " (gateway)"),
      ErrorObject("{ \"success\": false, \"error\": [ { \"code\": "
                  \o Digits(code) \o " }, { \"code\": 5 } ] }") }

\* Every other failure
OtherErrors ==
    { Undef, Null, Str(GatewayJson(2016)), Num(2016),
      Obj(<<>>),
      Obj(<<Field("message", Num(2016))>>),
      Obj(<<Field("code", Num(2016))>>),
      ErrorObject(""),
      ErrorObject("plain failure, no json"),
      ErrorObject("timeout {"),
      ErrorObject("} 2016 {"),
      ErrorObject("{}"),
      ErrorObject("{\"error\":[]}"),
      ErrorObject("{\"error\":\"2016\"}"),
      ErrorObject("{\"error\":{\"code\":2016}}"),
      ErrorObject("{\"error\":[null]}"),
      ErrorObject("{\"error\":[2016]}"),
      ErrorObject("{\"error\":[{\"message\":\"x\"}]}"),
      ErrorObject("{\"error\":[{\"code\":\"2016\"}]}"),
      ErrorObject("{\"error\":[{\"code\":-2016}]}"),
      ErrorObject("{\"error\":[{\"code\":2016},]}"),
      ErrorObject("{\"error\":[{\"code\":2016}]"),
      ErrorObject("{\"errors\":[{\"code\":2016}]}"),
      ErrorObject("{error:[{code:2016}]}"),
      ErrorObject("{\"error\":[{\"code\":2016}]} and {more}"),
      ErrorObject("{\n\"error\":[{\"code\":2017}]\n}") }
    \cup { ErrorObject("AiError: "
             \o "{\"error\":[{\"code\":" \o Digits(c) \o "},{\"code\":2016}]}") :
             c \in {0, 5, 2015, 2018, 20160} }

InferenceErrors ==
    GatewayErrors(PromptBlockedCode) \cup GatewayErrors(ResponseBlockedCode)
    \cup OtherErrors

\* env.AI.run(MODEL_ID, {input}, runOptions) is invoked and awaited. From
\* here on the handler reads nothing buildModelInput computed: its frame is
\* gone and aiOptions was handed over
CallModel ==
    /\ pc = "built"
    /\ calls' = calls + 1
    /\ pc' = "await"
    /\ raw' = <<>>
    /\ blocked' = {}
    /\ i' = 1
    /\ cleaned' = <<>>
    /\ windowed' = <<>>
    /\ input' = Undef
    /\ UNCHANGED <<request, aiResponse, error, thrownBy, response, responses>>

\* The awaited call resolves
RunResolves ==
    /\ pc = "await"
    /\ \E r \in AiResponses : aiResponse' = r
    /\ pc' = "extract"
    /\ UNCHANGED <<request, raw, blocked, i, cleaned, windowed, input, calls,
                   error, thrownBy, response, responses>>

\* Variant: a rejected call is made again
RunRejectsRetries ==
    /\ pc = "await"
    /\ calls < 2
    /\ pc' = "built"
    /\ UNCHANGED <<request, raw, blocked, i, cleaned, windowed, input, calls,
                   aiResponse, error, thrownBy, response, responses>>

\* The awaited call rejects
RunRejects ==
    /\ pc = "await"
    /\ \E e \in InferenceErrors : Throw(e, "inference")
    /\ UNCHANGED <<request, raw, blocked, i, cleaned, windowed, input, calls,
                   aiResponse, response, responses>>

----------------------------------------------------------------------------
(* handleChatRequest: extracting the answer text *)

\* The predicate of find: item.type === type
HasType(item, type) == ~PropThrows(item) /\ StrictEq(Get(item, "type"), Str(type))

\* items.find((item) => item.type === type) throws when it reads the type of
\* a null or undefined item, which it does if none before it matched
FindThrows(items, type) ==
    \E n \in 1..Len(items) :
        /\ PropThrows(items[n])
        /\ \A j \in 1..(n - 1) : ~HasType(items[j], type)

\* items.find((item) => item.type === type)
Find(items, type) ==
    IF \E n \in 1..Len(items) : HasType(items[n], type)
    THEN LET n == CHOOSE n \in 1..Len(items) :
                      /\ HasType(items[n], type)
                      /\ \A j \in 1..(n - 1) : ~HasType(items[j], type)
         IN items[n]
    ELSE Undef

HasOutputList(resp) == Truthy(Get(resp, "output")) /\ IsArray(Get(resp, "output"))

messageOutput(resp) == Find(Get(resp, "output").v, "message")

HasContentList(item) ==
    Truthy(item) /\ Truthy(Get(item, "content")) /\ IsArray(Get(item, "content"))

\* responseText after the Responses API branch
OutputText(resp) ==
    IF HasOutputList(resp) /\ HasContentList(messageOutput(resp))
    THEN LET textContent == Find(Get(messageOutput(resp), "content").v, "output_text")
         IN IF Truthy(textContent) /\ Truthy(Get(textContent, "text"))
            THEN Get(textContent, "text")
            ELSE Str("")
    ELSE Str("")

ParseFailure == "Error: Could not parse AI response"

\* resp.choices[0]?.message?.content
ChoiceContent(resp) ==
    OptGet(OptGet(First(Get(resp, "choices")), "message"), "content")

\* Variant: content is probed before response
FallbackContentFirst(resp) ==
    IF Truthy(Get(resp, "content")) THEN Get(resp, "content")
    ELSE IF Truthy(Get(resp, "response")) THEN Get(resp, "response")
    ELSE IF Truthy(Get(resp, "choices")) /\ Truthy(ChoiceContent(resp))
         THEN ChoiceContent(resp)
    ELSE IF Truthy(Get(resp, "result")) /\ Truthy(Get(Get(resp, "result"), "response"))
         THEN Get(Get(resp, "result"), "response")
    ELSE Str(ParseFailure)

\* responseText after the fallback chain
FallbackText(resp) ==
    IF Truthy(Get(resp, "response")) THEN Get(resp, "response")
    ELSE IF Truthy(Get(resp, "content")) THEN Get(resp, "content")
    ELSE IF Truthy(Get(resp, "choices")) /\ Truthy(ChoiceContent(resp))
         THEN ChoiceContent(resp)
    ELSE IF Truthy(Get(resp, "result")) /\ Truthy(Get(Get(resp, "result"), "response"))
         THEN Get(Get(resp, "result"), "response")
    ELSE Str(ParseFailure)

\* responseText when nothing throws
ExtractText(r) ==
    IF IsString(r) THEN r
    ELSE IF Truthy(r) /\ TypeofObject(r)
         THEN IF Truthy(OutputText(r)) THEN OutputText(r) ELSE FallbackText(r)
         ELSE Str("")

\* One of the two find calls throws
ExtractionThrows(r) ==
    /\ ~IsString(r)
    /\ Truthy(r) /\ TypeofObject(r)
    /\ HasOutputList(r)
    /\ \/ FindThrows(Get(r, "output").v, "message")
       \/ /\ HasContentList(messageOutput(r))
          /\ FindThrows(Get(messageOutput(r), "content").v, "output_text")

JsonResponse(status, body) ==
    /\ response' = [status |-> status, body |-> body]
    /\ responses' = responses + 1
    /\ pc' = "done"

ExtractThrows ==
    /\ pc = "extract"
    /\ ExtractionThrows(aiResponse)
    /\ Throw(TypeError("undefined (reading 'type')"), "extract")
    /\ UNCHANGED <<request, raw, blocked, i, cleaned, windowed, input, calls,
                   aiResponse, response, responses>>

\* The text is extracted and returned as {response, success: true}
RespondSuccess ==
    /\ pc = "extract"
    /\ ~ExtractionThrows(aiResponse)
    /\ JsonResponse(200, Obj(<<Field("response", ExtractText(aiResponse)),
                               Field("success", Bool(TRUE))>>))
    /\ UNCHANGED <<request, raw, blocked, i, cleaned, windowed, input, calls,
                   aiResponse, error, thrownBy>>

----------------------------------------------------------------------------
(* JSON.parse, on the texts the model uses: objects, arrays, strings without
   escapes, integers, true, false and null *)

Ch(s, p) == IF p >= 1 /\ p <= Len(s) THEN SubSeq(s, p, p) ELSE ""

IsDigit(c) == \E n \in 1..10 : SubSeq("0123456789", n, n) = c
DigitValue(c) == (CHOOSE n \in 1..10 : SubSeq("0123456789", n, n) = c) - 1

RECURSIVE SkipWhitespace(_, _)
SkipWhitespace(s, p) ==
    IF Ch(s, p) \in {" ", "\n", "\t", "\r"} THEN SkipWhitespace(s, p + 1) ELSE p

RECURSIVE DigitsEnd(_, _)
DigitsEnd(s, p) == IF IsDigit(Ch(s, p)) THEN DigitsEnd(s, p + 1) ELSE p

RECURSIVE NumberValue(_, _, _)
NumberValue(s, from, to) ==
    IF from > to THEN 0
    ELSE 10 * NumberValue(s, from, to - 1) + DigitValue(Ch(s, to))

ParseFail == [ok |-> FALSE, val |-> Undef, pos |-> 0]
ParseOk(val, pos) == [ok |-> TRUE, val |-> val, pos |-> pos]

\* A string whose opening quote is at p - 1
ParseString(s, p) ==
    IF \E q \in p..Len(s) : Ch(s, q) = "\""
    THEN LET q == CHOOSE q \in p..Len(s) :
                      /\ Ch(s, q) = "\""
                      /\ \A j \in p..(q - 1) : Ch(s, j) # "\""
         IN IF \E j \in p..(q - 1) : Ch(s, j) \in {"\\", "\n", "\r", "\t"}
            THEN ParseFail
            ELSE ParseOk(Str(SubSeq(s, p, q - 1)), q + 1)
    ELSE ParseFail

ParseNumber(s, p) ==
    LET neg == Ch(s, p) = "-"
        from == IF neg THEN p + 1 ELSE p
        to == DigitsEnd(s, from)
    IN IF to = from \/ (Ch(s, from) = "0" /\ to > from + 1)
       THEN ParseFail
       ELSE LET n == NumberValue(s, from, to - 1)
            IN ParseOk(Num(IF neg THEN -n ELSE n), to)

RECURSIVE ParseValue(_, _), ParseMembers(_, _, _), ParseElements(_, _, _)

ParseValue(s, p0) ==
    LET p == SkipWhitespace(s, p0)
        c == Ch(s, p)
    IN CASE c = "{" ->
              IF Ch(s, SkipWhitespace(s, p + 1)) = "}"
              THEN ParseOk(Obj(<<>>), SkipWhitespace(s, p + 1) + 1)
              ELSE ParseMembers(s, p + 1, <<>>)
         [] c = "[" ->
              IF Ch(s, SkipWhitespace(s, p + 1)) = "]"
              THEN ParseOk(Arr(<<>>), SkipWhitespace(s, p + 1) + 1)
              ELSE ParseElements(s, p + 1, <<>>)
         [] c = "\"" -> ParseString(s, p + 1)
         [] c = "-" \/ IsDigit(c) -> ParseNumber(s, p)
         [] c = "t" /\ SubSeq(s, p, p + 3) = "true" -> ParseOk(Bool(TRUE), p + 4)
         [] c = "f" /\ SubSeq(s, p, p + 4) = "false" -> ParseOk(Bool(FALSE), p + 5)
         [] c = "n" /\ SubSeq(s, p, p + 3) = "null" -> ParseOk(Null, p + 4)
         [] OTHER -> ParseFail

\* "key": value, then a comma and more members, or the closing brace
ParseMembers(s, p0, fields) ==
    LET p == SkipWhitespace(s, p0)
        key == IF Ch(s, p) = "\"" THEN ParseString(s, p + 1) ELSE ParseFail
        colon == SkipWhitespace(s, key.pos)
        val == IF key.ok /\ Ch(s, colon) = ":"
               THEN ParseValue(s, colon + 1) ELSE ParseFail
        after == SkipWhitespace(s, val.pos)
        all == Append(fields, Field(key.val.v, val.val))
    IN IF ~val.ok THEN ParseFail
       ELSE IF Ch(s, after) = "," THEN ParseMembers(s, after + 1, all)
       ELSE IF Ch(s, after) = "}" THEN ParseOk(Obj(all), after + 1)
       ELSE ParseFail

\* value, then a comma and more elements, or the closing bracket
ParseElements(s, p0, elements) ==
    LET val == ParseValue(s, p0)
        after == SkipWhitespace(s, val.pos)
        all == Append(elements, val.val)
    IN IF ~val.ok THEN ParseFail
       ELSE IF Ch(s, after) = "," THEN ParseElements(s, after + 1, all)
       ELSE IF Ch(s, after) = "]" THEN ParseOk(Arr(all), after + 1)
       ELSE ParseFail

\* JSON.parse(s): ok is FALSE where it throws a SyntaxError
JSONParse(s) ==
    LET r == ParseValue(s, 1)
    IN IF r.ok /\ SkipWhitespace(s, r.pos) = Len(s) + 1 THEN r ELSE ParseFail

----------------------------------------------------------------------------
(* handleChatRequest: the catch clause *)

\* Can s.match(/\{.*\}/) start at n and end at m: the dot matches no line end
BraceSpan(s, n, m) ==
    /\ n < m
    /\ Ch(s, n) = "{"
    /\ Ch(s, m) = "}"
    /\ \A j \in (n + 1)..(m - 1) : Ch(s, j) \notin {"\n", "\r"}

\* Variant: the match is lazy, /\{.*?\}/
jsonMatchLazy(s) ==
    IF \E n, m \in 1..Len(s) : BraceSpan(s, n, m)
    THEN LET n == CHOOSE n \in 1..Len(s) :
                      /\ \E m \in 1..Len(s) : BraceSpan(s, n, m)
                      /\ \A k \in 1..(n - 1) : \A m \in 1..Len(s) : ~BraceSpan(s, k, m)
             m == CHOOSE m \in 1..Len(s) :
                      /\ BraceSpan(s, n, m)
                      /\ \A k \in (n + 1)..(m - 1) : ~BraceSpan(s, n, k)
         IN Str(SubSeq(s, n, m))
    ELSE Null

\* s.match(/\{.*\}/): the leftmost start, and from it the longest match
jsonMatch(s) ==
    IF \E n, m \in 1..Len(s) : BraceSpan(s, n, m)
    THEN LET n == CHOOSE n \in 1..Len(s) :
                      /\ \E m \in 1..Len(s) : BraceSpan(s, n, m)
                      /\ \A k \in 1..(n - 1) : \A m \in 1..Len(s) : ~BraceSpan(s, k, m)
             m == CHOOSE m \in 1..Len(s) :
                      /\ BraceSpan(s, n, m)
                      /\ \A k \in (m + 1)..Len(s) : ~BraceSpan(s, n, k)
         IN Str(SubSeq(s, n, m))
    ELSE Null

\* gatewayError, as lines 275-289 leave it
gatewayError(errorObj) ==
    LET message == Get(errorObj, "message")
    IN IF Truthy(message) /\ IsString(message) /\ Truthy(jsonMatch(message.v))
       THEN LET parsed == JSONParse(jsonMatch(message.v).v)
            IN IF /\ parsed.ok
                  /\ Truthy(Get(parsed.val, "error"))
                  /\ IsArray(Get(parsed.val, "error"))
               THEN First(Get(parsed.val, "error"))
               ELSE Null
       ELSE Null

HasCode(e, code) ==
    /\ Truthy(e) /\ TypeofObject(e)
    /\ Truthy(gatewayError(e))
    /\ StrictEq(Get(gatewayError(e), "code"), Num(code))

PromptBlockedBody ==
    Obj(<<Field("error", Str("Prompt Blocked by Security Policy")),
          Field("errorType", Str("prompt_blocked")),
          Field("details",
                IF AI_GATEWAY_ID # ""
                THEN Str("Your message was blocked by your organization's AI Gateway security policy.")
                ELSE Str("Your message was blocked due to security policy.")),
          Field("usingGateway", Bool(AI_GATEWAY_ID # ""))>>)

ResponseBlockedBody ==
    Obj(<<Field("error", Str("Response Blocked by Security Policy")),
          Field("errorType", Str("response_blocked")),
          Field("details",
                IF AI_GATEWAY_ID # ""
                THEN Str("The AI's response was blocked by your organization's AI Gateway security policy.")
                ELSE Str("The AI's response was blocked due to security policy.")),
          Field("usingGateway", Bool(AI_GATEWAY_ID # ""))>>)

GenericErrorBody == Obj(<<Field("error", Str("Failed to process request"))>>)

CatchUnchanged ==
    UNCHANGED <<request, raw, blocked, i, cleaned, windowed, input, calls,
                aiResponse, error, thrownBy>>

RespondPromptBlocked ==
    /\ pc = "catch"
    /\ HasCode(error, PromptBlockedCode)
    /\ JsonResponse(400, PromptBlockedBody)
    /\ CatchUnchanged

RespondResponseBlocked ==
    /\ pc = "catch"
    /\ ~HasCode(error, PromptBlockedCode)
    /\ HasCode(error, ResponseBlockedCode)
    /\ JsonResponse(400, ResponseBlockedBody)
    /\ CatchUnchanged

RespondGenericError ==
    /\ pc = "catch"
    /\ ~HasCode(error, PromptBlockedCode)
    /\ ~HasCode(error, ResponseBlockedCode)
    /\ JsonResponse(500, GenericErrorBody)
    /\ CatchUnchanged

Next ==
    \/ ReadBodyThrows
    \/ ReadBody
    \/ EntryThrows
    \/ SkipSystem
    \/ SkipBlocked
    \/ DropNotice
    \/ PushMessage
    \/ ReturnModelInput
    \/ CallModel
    \/ RunResolves
    \/ RunRejects
    \/ ExtractThrows
    \/ RespondSuccess
    \/ RespondPromptBlocked
    \/ RespondResponseBlocked
    \/ RespondGenericError

Spec == Init /\ [][Next]_vars

----------------------------------------------------------------------------
(* Properties *)

\* Does text contain sub
Contains(text, sub) ==
    \E n \in 1..(Len(text) - Len(sub) + 1) : SubSeq(text, n, n + Len(sub) - 1) = sub

\* The number of "Role: content" lines of a transcript
LineCount(text) ==
    IF text = "" THEN 0
    ELSE 1 + Cardinality({n \in 1..(Len(text) - 1) : SubSeq(text, n, n + 1) = "\n\n"})

RoleOf(m) == Get(m, "role")
ContentOf(m) == Get(m, "content")

\* C1: the input buildModelInput returns is built from no message of role
\* system and from no user message whose content is in the block set: no such
\* message is among the windowed ones, the text of the system message is not
\* in the input, and no blocked content is the input or one of its User lines.
C1_NoSystemNoBlockedInInput ==
    pc = "built" =>
        /\ \A n \in 1..Len(windowed) :
              /\ RoleOf(raw[windowed[n]]) # Str("system")
              /\ ~(/\ RoleOf(raw[windowed[n]]) = Str("user")
                   /\ ContentOf(raw[windowed[n]]) \in blocked)
        /\ ~Contains(TemplateString(input), "sys")
        /\ \A b \in blocked :
              /\ input # b
              /\ ~Contains(TemplateString(input), "User: " \o b.v)

C1_Witness ==
    /\ pc = "built"
    /\ Len(windowed) > 0
    /\ \E k \in 1..Len(raw) : RoleOf(raw[k]) = Str("system")
    /\ \E k \in 1..Len(raw) :
          RoleOf(raw[k]) = Str("user") /\ ContentOf(raw[k]) \in blocked

\* C2: at most 16 messages contribute to the input: windowed is the last 16
\* entries of cleaned, in order, when cleaned has more than 16, and cleaned
\* itself otherwise; the transcript has at most 16 lines.
C2_WindowKeepsLast16 ==
    pc = "built" =>
        /\ Len(windowed) <= 16
        /\ Len(cleaned) > 16 =>
              /\ Len(windowed) = 16
              /\ \A n \in 1..16 : windowed[n] = cleaned[Len(cleaned) - 16 + n]
        /\ Len(cleaned) <= 16 => windowed = cleaned
        /\ LineCount(TemplateString(input)) <= 16

C2_Witness ==
    /\ pc = "built"
    /\ Len(raw) = 20
    /\ Len(cleaned) = 20
    /\ windowed = [n \in 1..16 |-> n + 4]

NoticeEntry == ChatMessage("assistant", Str("Sorry: Blocked By GUARDRAILS."))

\* C3: the iteration that meets a guardrail notice raises nothing, never
\* appends the notice, and removes the last entry of cleaned if and only if
\* there is one and its role is user; it removes at most that one entry.
C3_NoticePopsAtMostOneUser ==
    [][(pc = "loop" /\ i <= Len(raw) /\ raw[i] = NoticeEntry) =>
          /\ pc' = "loop"
          /\ i' = i + 1
          /\ Len(cleaned') \in {Len(cleaned) - 1, Len(cleaned)}
          /\ cleaned' = SubSeq(cleaned, 1, Len(cleaned'))
          /\ (Len(cleaned') = Len(cleaned) - 1) <=>
                (/\ Len(cleaned) > 0
                 /\ RoleOf(raw[cleaned[Len(cleaned)]]) = Str("user"))]_vars

\* A notice after a user message was met: both are gone
C3_Witness ==
    /\ pc = "loop"
    /\ i = 3
    /\ raw[1] = ChatMessage("user", Str("hi"))
    /\ raw[2] = NoticeEntry
    /\ cleaned = <<>>

\* C4: the sanitizer never fails on a messages array; no request is answered
\* with an error because of a malformed entry.
C4_SanitizerNeverFails == thrownBy # "sanitize"

\* The first item of a list that has the type, as a set of at most one item
FirstOfType(list, type) ==
    IF IsArray(list)
    THEN {list.v[n] : n \in {n \in 1..Len(list.v) :
               /\ HasType(list.v[n], type)
               /\ \A j \in 1..(n - 1) : ~HasType(list.v[j], type)}}
    ELSE {}

\* The texts the structured envelope of r offers: the non-empty text of the
\* first output_text item of the first message item of output
StructuredTexts(r) ==
    {Get(t, "text") : t \in {t \in UNION {FirstOfType(Get(mo, "content"), "output_text") :
                                             mo \in FirstOfType(Get(r, "output"), "message")} :
                                 Truthy(Get(t, "text"))}}

\* The legacy fields of r, in priority order
LegacyFields(r) ==
    << Get(r, "response"),
       Get(r, "content"),
       OptGet(OptGet(First(Get(r, "choices")), "message"), "content"),
       Get(Get(r, "result"), "response") >>

AnswerText == Get(response.body, "response")

\* C5: the answer of a success response is the result itself when it is a
\* string; else the structured text when there is one; else the first truthy
\* legacy field in the order response, content, choices[0].message.content,
\* result.response.
C5_ExtractionPriority ==
    (pc = "done" /\ response.status = 200) =>
        /\ IsString(aiResponse) => AnswerText = aiResponse
        /\ (aiResponse.t \in {"object", "array"} /\ StructuredTexts(aiResponse) # {}) =>
              AnswerText \in StructuredTexts(aiResponse)
        /\ (aiResponse.t \in {"object", "array"} /\ StructuredTexts(aiResponse) = {}) =>
              \A n \in 1..4 :
                  (/\ Truthy(LegacyFields(aiResponse)[n])
                   /\ \A j \in 1..(n - 1) : ~Truthy(LegacyFields(aiResponse)[j]))
                  => AnswerText = LegacyFields(aiResponse)[n]

\* Lower-priority fields were present and the higher-priority one was returned
C5_Witness ==
    /\ pc = "done"
    /\ response.status = 200
    /\ AnswerText = Str("legacy")
    /\ Get(aiResponse, "content") = Str("flat")
    /\ StructuredTexts(aiResponse) = {}
    /\ FirstOfType(Get(aiResponse, "output"), "message") # {}

\* No text can be found in r
NoTextFound(r) ==
    /\ ~IsString(r)
    /\ StructuredTexts(r) = {}
    /\ \A n \in 1..4 : ~Truthy(LegacyFields(r)[n])

\* C6: extraction never raises, and where no text can be found the success
\* response carries the sentinel, never an empty answer.
C6_SentinelWhenNoText ==
    /\ thrownBy # "extract"
    /\ (pc = "done" /\ thrownBy = "none" /\ NoTextFound(aiResponse)) =>
          /\ response.status = 200
          /\ AnswerText = Str(ParseFailure)

\* C7: a caught inference error whose embedded JSON has an error list headed
\* by code 2016 is answered 400 prompt_blocked, by code 2017 400
\* response_blocked, and every other error is answered the generic 500.
C7_ErrorClassification ==
    (pc = "done" /\ thrownBy = "inference") =>
        /\ error \in GatewayErrors(2016) =>
              /\ response.status = 400
              /\ Get(response.body, "errorType") = Str("prompt_blocked")
        /\ error \in GatewayErrors(2017) =>
              /\ response.status = 400
              /\ Get(response.body, "errorType") = Str("response_blocked")
        /\ error \in OtherErrors =>
              /\ response.status = 500
              /\ response.body = GenericErrorBody

C7_Witness ==
    /\ pc = "done"
    /\ thrownBy = "inference"
    /\ error = ErrorObject("AiError: " \o GatewayJson(2017) \o " (gateway)")
    /\ response.status = 400
    /\ Get(response.body, "errorType") = Str("response_blocked")

\* C8 as stated: every request invokes the inference call exactly once.
C8_ExactlyOneCall == pc = "done" => calls = 1

\* C8, amended: the inference call is invoked at most once per request and
\* never again: once when the body was read and sanitized without an
\* exception, not at all when one of the two threw; a rejected call is
\* followed directly by the error response.
C8_AtMostOneCallNoRetry ==
    /\ [](/\ calls <= 1
          /\ pc \in {"await", "extract"} => calls = 1
          /\ thrownBy \in {"inference", "extract"} => calls = 1
          /\ pc = "done" => (calls = 0 <=> thrownBy \in {"json", "sanitize"}))
    /\ [][(pc = "catch" /\ thrownBy = "inference") =>
             /\ pc' = "done"
             /\ calls' = calls
             /\ response'.status \in {400, 500}]_vars

C8_Witness ==
    /\ pc = "done"
    /\ thrownBy = "inference"
    /\ calls = 1
    /\ responses = 1
    /\ response.status = 500

\* C9: no exception leaves the handler: it never returns twice, it has
\* returned nothing before it ends, and it ends with exactly one response, of
\* status 200, 400 or 500 and with a JSON object as body, of status 400 or 500
\* if a step threw (reading the body, sanitizing, the inference call,
\* extracting) and of status 200 if none did.
C9_AlwaysOneJsonResponse ==
    /\ responses <= 1
    /\ pc # "done" => responses = 0
    /\ pc = "done" =>
          /\ responses = 1
          /\ response.status \in {200, 400, 500}
          /\ response.body.t = "object"
          /\ thrownBy # "none" => response.status \in {400, 500}
          /\ thrownBy = "none" => response.status = 200

\* A failure while extracting the answer was answered
C9_Witness ==
    /\ pc = "done"
    /\ thrownBy = "extract"
    /\ responses = 1
    /\ response.status = 500

\* C10: a guardrail notice removes a user message only if that message is
\* the entry immediately before the notice in the raw history.
C10_PopsOnlyAdjacentUser ==
    [][(pc = "loop" /\ pc' = "loop" /\ Len(cleaned') < Len(cleaned)) =>
          cleaned[Len(cleaned)] = i - 1]_vars

====
